---- MODULE Spec2Model ----
(***************************************************************************)
(* Session-authentication core of vv-keep-notes: the /api/auth handlers     *)
(* (register, login, refresh, logout) over the User.refreshTokens ledger,   *)
(* the JWT helpers of utils/auth.js, and the axios refresh coordinator of   *)
(* context/AuthContext.jsx.                                                 *)
(*                                                                          *)
(* Every handler is split at its awaits: the step that ends in the storage  *)
(* read (User.findById / User.findOne / User.create) and the step that runs *)
(* from there to the response, user.save() included.  Several requests may  *)
(* be between the two steps at once.                                        *)
(***************************************************************************)
EXTENDS Integers, Sequences, FiniteSets, TLC

(* ------------------------------ bounds --------------------------------- *)
MaxTicks == 1          \* SpecSeq: clock advances in one behaviour
MaxRaceTicks == 1      \* Spec: clock advances in one behaviour
MaxRaceLedger == 2     \* Spec: logins start while the ledger is shorter
MaxSeqLedger == 11     \* SpecSeq: logins start while the ledger is shorter
MaxCalls == 2          \* SpecClient: protected calls the pages make
MaxClientTicks == 1    \* SpecClient: clock advances in one behaviour
MaxTokenTicks == 2     \* SpecToken: clock advances in one behaviour
MaxResetTicks == 1     \* SpecReset: clock advances in one behaviour
MaxSettings == 1       \* PUT requests that set reminderAt in one behaviour
MaxMails == 2          \* reminder mails counted per setting of reminderAt
MaxReminderTicks == 2  \* SpecReminder: clock advances in one behaviour
MaxConnects == 2       \* mongoose.connect calls in one behaviour

(* -------------------------- program constants -------------------------- *)
ACCESS_TOKEN_EXPIRY == 900        \* '15m', in seconds
REFRESH_TOKEN_EXPIRY == 604800    \* '7d', in seconds
LedgerCap == 10                   \* if (user.refreshTokens.length > 10)
UserId == 1                       \* user._id of the one registered identity
OtherId == 2                      \* an _id no document of the collection has

\* the server handles two requests at the same time
Slots == {1, 2}

VARIABLES
    now,            \* Date.now(), in whole seconds (the unit of iat and exp)
    ticks,          \* clock advances so far
    userExists,     \* the User document of UserId is in the collection
    refreshTokens,  \* User.refreshTokens of UserId: sequence of token values
    reqs,           \* per slot: the request the server is handling
    last,           \* the response the server sent last
    issued,         \* history: refresh token values delivered in a 200
    redeemed,       \* history: values redeemed by a successful rotation
    revoked,        \* history: values removed by a logout
    detected        \* history: the values issued before the last 403

\* the browser tab: context/AuthContext.jsx, axios and the cookie jar
VARIABLES
    mounted,        \* AuthProvider's effects have run
    jar,            \* the access_token and refresh_token cookies
    localToken,     \* localStorage 'access_token' and the token state
    tokenChanged,   \* the [token] effect is due
    user,           \* the user state is set
    atLogin,        \* Router.push('/login') has run
    isRefreshing,   \* the coordinator's in-flight flag
    refreshSubscribers, \* the coordinator's queue: ids of the calls to replay
    calls,          \* the axios requests: config, position, owner
    checks,         \* the running checkAuth() invocations
    got             \* the response the tab received last

\* the Request Authenticator on its own
VARIABLES
    req,            \* the request handed to getUserFromReq last
    ctx,            \* whether it returned a user for that request
    replied         \* the statuses the routes answer that request with

\* the token helpers on their own
VARIABLES
    minted,         \* the token jwt.sign has returned last
    verified        \* the last verification: token, second, outcome

\* the account: passwordHash and the reset-token fields of the User document
VARIABLES
    passwordHash,   \* the password the stored hash was made from
    resetPassword,  \* resetPasswordToken and resetPasswordExpires
    resetReq        \* the reset-password request being handled

\* a note, the PUT /api/notes/:id request on it, and the reminder checkers
VARIABLES
    note,           \* the Note document
    putReq,         \* the PUT request being handled
    checkers,       \* each checker's position and the due note it found
    setting,        \* how many times reminderAt has been set
    mailed          \* the reminder mails sent, per setting of reminderAt

\* the database connection cache
VARIABLES
    cached,         \* global.mongoose: conn and promise
    connects,       \* the calls of mongoose.connect made
    dbCalls         \* each dbConnect call: its position and what it returned

serverVars == <<userExists, refreshTokens, reqs, last>>
accountVars == <<passwordHash, resetPassword, resetReq>>
noteVars == <<note, putReq, checkers, setting, mailed>>
dbVars == <<cached, connects, dbCalls>>
appVars == <<accountVars, noteVars, dbVars>>
tokenVars == <<minted, verified>>
authVars == <<req, ctx, replied>>
historyVars == <<issued, redeemed, revoked, detected>>
clientVars == <<mounted, jar, localToken, tokenChanged, user, atLogin,
                isRefreshing, refreshSubscribers, calls, checks, got>>
vars == <<now, ticks, serverVars, historyVars, clientVars, authVars, tokenVars,
          appVars>>

(* ------------------------------ tokens --------------------------------- *)
\* jwt.sign(payload, JWT_SECRET, {expiresIn}) is a deterministic function of
\* the payload and of the second it is called in (iat), so a token value is
\* the claim set it carries.  Both classes are signed with the same secret.
NoToken == [cls |-> "none", userId |-> 0, iat |-> 0]
Garbage == [cls |-> "garbage", userId |-> 0, iat |-> 0]

generateAccessToken(uid, t) == [cls |-> "access", userId |-> uid, iat |-> t]

generateRefreshToken(uid, t) == [cls |-> "refresh", userId |-> uid, iat |-> t]

\* a refresh token with a valid signature whose userId finds no document
Orphan == generateRefreshToken(OtherId, 0)

Exp(tok) == tok.iat + (IF tok.cls = "access" THEN ACCESS_TOKEN_EXPIRY
                                             ELSE REFRESH_TOKEN_EXPIRY)

\* a verification that still accepts a token in the second it expires in
jwtVerifyInclusive(tok, t) == tok.cls \in {"access", "refresh"} /\ t <= Exp(tok)

\* jwt.verify: signature, then clockTimestamp >= exp throws; the catch
\* returns null.  TRUE stands for a returned payload.
jwtVerify(tok, t) == tok.cls \in {"access", "refresh"} /\ t < Exp(tok)
verifyAccessToken(tok, t) == jwtVerify(tok, t)
verifyRefreshToken(tok, t) == jwtVerify(tok, t)

(* --------------------------- sequence helpers -------------------------- *)
RECURSIVE findIndex(_, _, _)
\* Array.prototype.findIndex(t => t.token === tok), 1-based; 0 for -1
findIndex(seq, tok, i) ==
    IF i > Len(seq) THEN 0
    ELSE IF seq[i] = tok THEN i
    ELSE findIndex(seq, tok, i + 1)

\* Array.prototype.splice(i, 1)
splice(seq, i) == SubSeq(seq, 1, i - 1) \o SubSeq(seq, i + 1, Len(seq))

\* Array.prototype.filter(t => t.token !== tok)
filterOut(seq, tok) == SelectSeq(seq, LAMBDA x : x # tok)

Range(seq) == {seq[i] : i \in 1..Len(seq)}

(* ----------------------------- responses ------------------------------- *)
\* what a handler decides: the status, the Set-Cookie header ("none", "set"
\* to the new pair, or "cleared"), the pair, and the array it stores
Answer(st, ck, at, rt, wr, arr) ==
    [status |-> st, cookies |-> ck, access |-> at, refresh |-> rt,
     write |-> wr, ledger |-> arr]

Rejected(st, ck, arr) == Answer(st, ck, NoToken, NoToken, FALSE, arr)

(* ---------------- POST /api/auth/register, /api/auth/login -------------- *)
\* generateAccessToken, generateRefreshToken, push, save, setAuthCookies.
\* push alone is saved as $push with $inc of __v and a filter on _id only:
\* it appends to the stored array, whatever was read, and fails only when
\* the document is gone (caught, 500).
issueOnLogin(stored, exists, t) ==
    IF exists
    THEN Answer(200, "set", generateAccessToken(UserId, t),
                generateRefreshToken(UserId, t), TRUE,
                Append(stored, generateRefreshToken(UserId, t)))
    ELSE Rejected(500, "none", stored)

(* ------------------------- POST /api/auth/refresh ----------------------- *)
\* a rotation that filters the redeemed value out instead of splicing one
\* entry
rotateFiltering(doc, tokenIndex, newRefreshToken) ==
    LET pushed == Append(filterOut(doc, doc[tokenIndex]), newRefreshToken)
    IN  IF Len(pushed) > LedgerCap THEN Tail(pushed) ELSE pushed

\* a rotation that drops the newest entry when the array is over the cap
rotateDroppingNewest(doc, tokenIndex, newRefreshToken) ==
    LET pushed == Append(splice(doc, tokenIndex), newRefreshToken)
    IN  IF Len(pushed) > LedgerCap THEN SubSeq(pushed, 1, Len(pushed) - 1)
        ELSE pushed

\* the rotated array: splice out the redeemed entry, push the new one,
\* shift the oldest when more than LedgerCap entries remain
rotate(doc, tokenIndex, newRefreshToken) ==
    LET pushed == Append(splice(doc, tokenIndex), newRefreshToken)
    IN  IF Len(pushed) > LedgerCap THEN Tail(pushed) ELSE pushed

\* a head that does not verify the token before the lookup
refreshAdmitsUnverified(tok, exists, t) == tok # NoToken /\ exists

\* the head of the handler: cookie parsing, verifyRefreshToken, findById.
\* TRUE when the handler goes on to the rotation check.
refreshAdmits(tok, exists, t) ==
    tok # NoToken /\ verifyRefreshToken(tok, t) /\ exists

refreshRejects(tok, stored) ==
    IF tok = NoToken THEN Rejected(401, "none", stored)
    ELSE Rejected(401, "cleared", stored)

\* the rotation check and what follows it, on the document read (doc).
\* A replaced or spliced array is saved as $set of the whole array with the
\* __v read in the filter; matches says that the stored __v is still that
\* one.  Otherwise save() throws VersionError, which the handler does not
\* catch: the framework answers 500 and no cookie header is written.
\* Assigning [] to an array that is already empty modifies nothing, and
\* save() sends nothing.
rotation(doc, stored, tok, matches, t) ==
    LET tokenIndex == findIndex(doc, tok, 1)
        newRefreshToken == generateRefreshToken(UserId, t)
    IN  IF tokenIndex = 0
        THEN IF doc = <<>> THEN Rejected(403, "cleared", stored)
             ELSE IF matches
             THEN Answer(403, "cleared", NoToken, NoToken, TRUE, <<>>)
             ELSE Rejected(500, "none", stored)
        ELSE IF matches
        THEN Answer(200, "set", generateAccessToken(UserId, t),
                    newRefreshToken, TRUE,
                    rotate(doc, tokenIndex, newRefreshToken))
        ELSE Rejected(500, "none", stored)

(* -------------------------- POST /api/auth/logout ----------------------- *)
\* User.findOne({'refreshTokens.token': refreshToken}) finds the document;
\* the signature is not verified
logoutFinds(tok, exists, stored) ==
    tok # NoToken /\ exists /\ tok \in Range(stored)

\* filter the token out and save ($set with the __v read), then clear the
\* cookies; a VersionError is not caught
logoutRemoval(doc, stored, tok, matches) ==
    IF matches
    THEN Answer(200, "cleared", NoToken, NoToken, TRUE, filterOut(doc, tok))
    ELSE Rejected(500, "none", stored)

(* ------------------------- requests being handled ----------------------- *)
\* A handler is split at its awaits: the step that ends in the storage read
\* and the step from there to the response, save() included.
\* peer: the latest request answered after this one read and before it saved
NoPeer == [op |-> "none", cookie |-> NoToken, status |-> 0, refresh |-> NoToken]

Idle == [pc |-> "idle", op |-> "none", cookie |-> NoToken, doc |-> <<>>,
         stale |-> FALSE, peer |-> NoPeer]

NoResponse == [op |-> "none", cookie |-> NoToken, status |-> 0,
               cookies |-> "none", access |-> NoToken, refresh |-> NoToken]

\* the values a caller can put in the refresh_token cookie
Presentable == {NoToken, Garbage, Orphan} \cup issued

\* User.findById(uid) finds a document
Exists(uid) == uid = UserId /\ userExists

Free(s) == reqs[s].pc = "idle"

\* the request of slot s has read the document: it holds a private copy
Found(s, op, tok) ==
    [reqs EXCEPT ![s] = [Idle EXCEPT !.pc = "found", !.op = op,
                                     !.cookie = tok, !.doc = refreshTokens]]

\* the stored __v is the one the request of slot s has read
saveMatches(s) == userExists /\ ~reqs[s].stale

Summary(op, tok, ans) ==
    [op |-> op, cookie |-> tok, status |-> ans.status, refresh |-> ans.refresh]

\* the response of a handler that has answered ans
Response(op, tok, ans) ==
    [op |-> op, cookie |-> tok, status |-> ans.status,
     cookies |-> ans.cookies, access |-> ans.access, refresh |-> ans.refresh]

\* a handler answers before it has read the document
Refuse(s, op, tok, ans) ==
    /\ last' = Response(op, tok, ans)
    /\ UNCHANGED <<userExists, refreshTokens, reqs>>

\* the handler of slot s stores ans.ledger when it writes, and answers; a
\* write increments __v, so what the other handlers have read is stale, and
\* the handlers that have read and not yet saved overlap this one
Complete(s, ans) ==
    /\ refreshTokens' = ans.ledger
    /\ last' = Response(reqs[s].op, reqs[s].cookie, ans)
    /\ reqs' = [o \in Slots |->
                  IF o = s THEN Idle
                  ELSE IF reqs[o].pc = "found"
                  THEN [reqs[o] EXCEPT
                          !.stale = @ \/ ans.write,
                          !.peer = Summary(reqs[s].op, reqs[s].cookie, ans)]
                  ELSE reqs[o]]
    /\ UNCHANGED userExists

\* validateRegistration, User.findOne({email}), User.create: the unique
\* index on email makes a second registration fail with 400
RegisterCreate(s) ==
    /\ Free(s)
    /\ IF userExists
       THEN /\ Refuse(s, "register", NoToken, Rejected(400, "none", refreshTokens))
       ELSE /\ userExists' = TRUE
            /\ refreshTokens' = <<>>
            /\ reqs' = [reqs EXCEPT ![s] = [Idle EXCEPT !.pc = "found",
                                                        !.op = "register"]]
            /\ UNCHANGED last
    /\ UNCHANGED <<appVars, tokenVars, authVars, clientVars, now, ticks, historyVars>>

RegisterSave(s) ==
    /\ reqs[s].pc = "found" /\ reqs[s].op = "register"
    /\ LET ans == issueOnLogin(refreshTokens, userExists, now)
       IN  /\ Complete(s, ans)
           /\ issued' = IF ans.status = 200 THEN issued \cup {ans.refresh}
                                            ELSE issued
    /\ UNCHANGED <<appVars, tokenVars, authVars, clientVars, now, ticks, redeemed, revoked, detected>>

\* validateLogin, User.findOne({email}); ok is the result of bcrypt.compare
LoginFind(s, ok) ==
    /\ Free(s)
    /\ IF ~userExists \/ ~ok
       THEN Refuse(s, "login", NoToken, Rejected(401, "none", refreshTokens))
       ELSE /\ reqs' = Found(s, "login", NoToken)
            /\ UNCHANGED <<userExists, refreshTokens, last>>
    /\ UNCHANGED <<appVars, tokenVars, authVars, clientVars, now, ticks, historyVars>>

LoginSave(s) ==
    /\ reqs[s].pc = "found" /\ reqs[s].op = "login"
    /\ LET ans == issueOnLogin(refreshTokens, userExists, now)
       IN  /\ Complete(s, ans)
           /\ issued' = IF ans.status = 200 THEN issued \cup {ans.refresh}
                                            ELSE issued
    /\ UNCHANGED <<appVars, tokenVars, authVars, clientVars, now, ticks, redeemed, revoked, detected>>

RefreshFind(s, tok) ==
    /\ Free(s)
    /\ IF refreshAdmits(tok, Exists(tok.userId), now)
       THEN /\ reqs' = Found(s, "refresh", tok)
            /\ UNCHANGED <<userExists, refreshTokens, last>>
       ELSE Refuse(s, "refresh", tok, refreshRejects(tok, refreshTokens))
    /\ UNCHANGED <<appVars, tokenVars, authVars, clientVars, now, ticks, historyVars>>

RefreshSave(s) ==
    /\ reqs[s].pc = "found" /\ reqs[s].op = "refresh"
    /\ LET ans == rotation(reqs[s].doc, refreshTokens, reqs[s].cookie,
                           saveMatches(s), now)
       IN  /\ Complete(s, ans)
           /\ issued' = IF ans.status = 200 THEN issued \cup {ans.refresh}
                                            ELSE issued
           /\ redeemed' = IF ans.status = 200
                          THEN redeemed \cup {reqs[s].cookie} ELSE redeemed
           /\ detected' = IF ans.status = 403 THEN issued ELSE detected
    /\ UNCHANGED <<appVars, tokenVars, authVars, clientVars, now, ticks, revoked>>

LogoutFind(s, tok) ==
    /\ Free(s)
    /\ IF logoutFinds(tok, userExists, refreshTokens)
       THEN /\ reqs' = Found(s, "logout", tok)
            /\ UNCHANGED <<userExists, refreshTokens, last>>
       ELSE Refuse(s, "logout", tok, Rejected(200, "cleared", refreshTokens))
    /\ UNCHANGED <<appVars, tokenVars, authVars, clientVars, now, ticks, historyVars>>

LogoutSave(s) ==
    /\ reqs[s].pc = "found" /\ reqs[s].op = "logout"
    /\ LET ans == logoutRemoval(reqs[s].doc, refreshTokens, reqs[s].cookie,
                                saveMatches(s))
       IN  /\ Complete(s, ans)
           /\ revoked' = IF ans.status = 200
                         THEN revoked \cup {reqs[s].cookie} ELSE revoked
    /\ UNCHANGED <<appVars, tokenVars, authVars, clientVars, now, ticks, issued, redeemed, detected>>

(* ---------------- Request Authenticator, GET /api/auth/me ---------------- *)
\* An Authorization header is the sequence auth.split(' ') gives: the scheme
\* and what follows it; <<>> stands for no header.  NoToken in it is the
\* empty string.
NoHeader == <<>>
Bearer(tok) == IF tok = NoToken THEN NoHeader ELSE <<"Bearer", tok>>

\* an extraction that looks at the cookie before the header
extractTokenCookieFirst(parts, cookie) ==
    IF cookie # NoToken THEN cookie
    ELSE IF Len(parts) = 2 /\ parts[1] = "Bearer" THEN parts[2]
    ELSE NoToken

\* lines 473-491: the token of a two-part 'Bearer <token>' header; the
\* access_token cookie when that gave no token
extractToken(parts, cookie) ==
    LET fromHeader == IF Len(parts) = 2 /\ parts[1] = "Bearer"
                      THEN parts[2] ELSE NoToken
    IN  IF fromHeader # NoToken THEN fromHeader ELSE cookie

\* an authenticator that returns the payload without looking the user up
getUserFromReqNoLookup(parts, cookie, t) ==
    LET token == extractToken(parts, cookie)
    IN  token # NoToken /\ verifyAccessToken(token, t)

\* getUserFromReq: that one token is verified and the identity looked up.
\* TRUE when a user is returned.
getUserFromReq(parts, cookie, t) ==
    LET token == extractToken(parts, cookie)
    IN  token # NoToken /\ verifyAccessToken(token, t) /\ Exists(token.userId)

\* the handler of /api/auth/me reads the access_token cookie alone
meHandler(cookie, exists, t) ==
    cookie # NoToken /\ verifyAccessToken(cookie, t) /\ exists

\* a route behind getUserFromReq (pages/api/user/me.js, pages/api/notes):
\* if (!user) return res.status(401)
routeStatus(parts, cookie, t) ==
    IF getUserFromReq(parts, cookie, t) THEN 200 ELSE 401

\* GET /api/auth/me: 401 without cookie, on a failed verification and when
\* findById finds no document
meStatus(cookie, t) ==
    IF meHandler(cookie, Exists(cookie.userId), t) THEN 200 ELSE 401

(* ------------------------ the tab: AuthContext.jsx ---------------------- *)
\* Call ids: 1..MaxCalls are the calls of the pages; the ids above them are
\* the calls AuthContext makes itself (/api/auth/me and /api/auth/refresh).
\* At most one call leads a refresh at a time, and each checkAuth awaits one
\* call, so three ids are enough for those.
AppCalls == 1..MaxCalls
OwnCalls == (MaxCalls + 1)..(MaxCalls + 3)
CallIds == AppCalls \cup OwnCalls
Checks == {1, 2}

\* owner: 0 for a page, a call id for the leader that awaits this refresh
\* call, -i for checkAuth invocation i
Unused == [kind |-> "none", pc |-> "unused", header |-> NoToken,
           ckAccess |-> NoToken, ckRefresh |-> NoToken, retry |-> FALSE,
           icpt |-> FALSE, owner |-> 0, replayed |-> FALSE, status |-> 0]

NothingGot == [id |-> 0, kind |-> "none", led |-> FALSE, status |-> 0,
               sent |-> <<>>]

\* the tab's state as one record, for the steps that run as one chain of
\* promise continuations; log: the requests the chain has sent, in order
Tab == [mounted |-> mounted, jar |-> jar, localToken |-> localToken,
        tokenChanged |-> tokenChanged, user |-> user, atLogin |-> atLogin,
        isRefreshing |-> isRefreshing, subs |-> refreshSubscribers,
        calls |-> calls, checks |-> checks, log |-> <<>>]

\* a render whose interceptors are bound to the variables it declares
rerenderRebinding(cs) == [cs EXCEPT !.isRefreshing = FALSE, !.subs = <<>>]

\* AuthProvider renders again after setUser, setToken or setMounted.  The
\* body declares isRefreshing and refreshSubscribers anew (lines 114-115),
\* but the interceptors are registered by effects with [] dependencies
\* (lines 147, 192): they stay bound to the variables of the first render,
\* which are the ones every response reads and writes.
rerender(cs) == cs

\* the step ends: the state is set, and a changed state renders again
SetTab(cs) ==
    LET next == IF \/ cs.user # user \/ cs.localToken # localToken
                   \/ cs.mounted # mounted
                THEN rerender(cs) ELSE cs
    IN  /\ mounted' = next.mounted
        /\ jar' = next.jar
        /\ localToken' = next.localToken
        /\ tokenChanged' = next.tokenChanged
        /\ user' = next.user
        /\ atLogin' = next.atLogin
        /\ isRefreshing' = next.isRefreshing
        /\ refreshSubscribers' = next.subs
        /\ calls' = next.calls
        /\ checks' = next.checks

\* a cookie is sent until its maxAge has passed, which is the lifetime of
\* the token it carries
cookieSent(tok, t) == IF tok # NoToken /\ t < Exp(tok) THEN tok ELSE NoToken

\* saveToken: localStorage and the token state
saveToken(cs, newToken) ==
    [cs EXCEPT !.localToken = newToken,
               !.tokenChanged = @ \/ (newToken # cs.localToken)]

\* the request interceptor (when registered at the time of the call) adds
\* the stored token unless the config has an Authorization header already;
\* then the request leaves with the cookies of that moment
requestInterceptor(config, stored) ==
    IF config.icpt /\ stored # NoToken /\ config.header = NoToken
    THEN stored ELSE config.header

Send(cs, c, t) ==
    [cs EXCEPT !.calls[c] =
        [@ EXCEPT !.pc = "sent",
                  !.header = requestInterceptor(cs.calls[c], cs.localToken),
                  !.ckAccess = cookieSent(cs.jar.access, t),
                  !.ckRefresh = cookieSent(cs.jar.refresh, t)],
               !.log = Append(@, [id |-> c, kind |-> cs.calls[c].kind,
                                  replay |-> cs.calls[c].replayed])]

FreeId(cs) ==
    CHOOSE id \in OwnCalls :
        /\ cs.calls[id].pc = "unused"
        /\ \A o \in OwnCalls : o < id => cs.calls[o].pc # "unused"

\* axios.get('/api/auth/me') or axios.post('/api/auth/refresh')
Spawn(cs, kind, owner, icpt, t) ==
    LET id == FreeId(cs)
    IN  Send([cs EXCEPT !.calls[id] = [Unused EXCEPT !.kind = kind,
                                                     !.owner = owner,
                                                     !.icpt = icpt]], id, t)

\* axios(originalRequest): the same config again, header included
Replay(cs, c, t) ==
    Send([cs EXCEPT !.calls[c].replayed = TRUE], c, t)

\* onRefreshed running the continuations from the newest to the oldest
RECURSIVE onRefreshedNewestFirst(_, _)
onRefreshedNewestFirst(cs, t) ==
    IF cs.subs = <<>> THEN cs
    ELSE onRefreshedNewestFirst(
            Replay([cs EXCEPT !.subs = SubSeq(@, 1, Len(@) - 1)],
                   cs.subs[Len(cs.subs)], t), t)

\* onRefreshed: every queued continuation replays its call, in queue order
RECURSIVE onRefreshed(_, _)
onRefreshed(cs, t) ==
    IF cs.subs = <<>> THEN cs
    ELSE onRefreshed(Replay([cs EXCEPT !.subs = Tail(@)], Head(cs.subs), t), t)

\* The promise of call c settles (ok: resolved; else rejected with status,
\* 0 for an error without response); body is the token of a response body.
\* What runs next is the code that awaits it: a page, checkAuth (lines
\* 69-96), or the response interceptor that leads the refresh (lines
\* 168-183), whose own promise then settles in turn.
RECURSIVE Settle(_, _, _, _, _, _)
Settle(cs, c, ok, status, body, t) ==
    LET call == cs.calls[c]
        freed == [cs EXCEPT !.calls[c] = Unused]
    IN  IF call.owner = 0
        THEN [cs EXCEPT !.calls[c].pc = IF ok THEN "resolved" ELSE "rejected",
                        !.calls[c].status = status]
        ELSE IF call.owner > 0
        THEN \* the leader's interceptor, after await axios.post(refresh)
             IF ok
             THEN LET saved == IF body # NoToken THEN saveToken(freed, body)
                                                 ELSE freed
                      drained == onRefreshed(
                                    [saved EXCEPT !.isRefreshing = FALSE], t)
                  IN  Replay(drained, call.owner, t)
             ELSE Settle([freed EXCEPT !.isRefreshing = FALSE,
                                       !.subs = <<>>,
                                       !.user = FALSE,
                                       !.atLogin = TRUE],
                         call.owner, FALSE, status, NoToken, t)
        ELSE \* checkAuth
             LET i == 0 - call.owner
                 stage == cs.checks[i]
                 failed == saveToken([freed EXCEPT !.user = FALSE,
                                                   !.checks[i] = "done"],
                                     NoToken)
             IN  IF stage = "me1"
                 THEN IF ok
                      THEN [freed EXCEPT !.user = TRUE, !.checks[i] = "done"]
                      ELSE IF status = 401
                      THEN Spawn([freed EXCEPT !.checks[i] = "refresh"],
                                 "refresh", call.owner, TRUE, t)
                      ELSE failed
                 ELSE IF stage = "refresh"
                 THEN IF ok
                      THEN Spawn([(IF body # NoToken
                                   THEN saveToken(freed, body) ELSE freed)
                                     EXCEPT !.checks[i] = "me2"],
                                 "me", call.owner, TRUE, t)
                      ELSE failed
                 ELSE IF ok
                      THEN [freed EXCEPT !.user = TRUE, !.checks[i] = "done"]
                      ELSE failed

\* an error handler that starts a refresh on a 403 as well
interceptErrorOnForbidden(cs, c, status, t) ==
    IF status \in {401, 403} /\ ~cs.calls[c].retry
    THEN IF cs.isRefreshing
         THEN [cs EXCEPT !.calls[c].pc = "queued", !.subs = Append(@, c)]
         ELSE Spawn([cs EXCEPT !.calls[c].retry = TRUE,
                               !.calls[c].pc = "leading",
                               !.isRefreshing = TRUE],
                    "refresh", c, TRUE, t)
    ELSE Settle(cs, c, FALSE, status, NoToken, t)

\* an error handler that does not look at _retry
interceptErrorIgnoringRetry(cs, c, status, t) ==
    IF status = 401
    THEN IF cs.isRefreshing
         THEN [cs EXCEPT !.calls[c].pc = "queued", !.subs = Append(@, c)]
         ELSE Spawn([cs EXCEPT !.calls[c].retry = TRUE,
                               !.calls[c].pc = "leading",
                               !.isRefreshing = TRUE],
                    "refresh", c, TRUE, t)
    ELSE Settle(cs, c, FALSE, status, NoToken, t)

\* the response interceptor's error handler (lines 153-186)
interceptError(cs, c, status, t) ==
    IF status = 401 /\ ~cs.calls[c].retry
    THEN IF cs.isRefreshing
         THEN [cs EXCEPT !.calls[c].pc = "queued", !.subs = Append(@, c)]
         ELSE Spawn([cs EXCEPT !.calls[c].retry = TRUE,
                               !.calls[c].pc = "leading",
                               !.isRefreshing = TRUE],
                    "refresh", c, TRUE, t)
    ELSE Settle(cs, c, FALSE, status, NoToken, t)

\* a response (or an error without response) reaches the tab: the cookies
\* are stored, then the interceptor runs if it was registered when the call
\* was made
Deliver(cs, c, ans, t) ==
    LET stored == [cs EXCEPT !.jar =
                      IF ans.cookies = "set"
                      THEN [access |-> ans.access, refresh |-> ans.refresh]
                      ELSE IF ans.cookies = "cleared"
                      THEN [access |-> NoToken, refresh |-> NoToken]
                      ELSE @]
    IN  IF ans.status = 200
        THEN Settle(stored, c, TRUE, 200, ans.access, t)
        ELSE IF cs.calls[c].icpt
        THEN interceptError(stored, c, ans.status, t)
        ELSE Settle(stored, c, FALSE, ans.status, NoToken, t)

\* AuthProvider mounts.  Its effects run in source order: the stored token
\* is loaded (line 27), checkAuth() is called (line 99) and only then are
\* the interceptors registered (lines 128, 151), so the /api/auth/me call of
\* this first checkAuth passes through no interceptor.
Mount ==
    /\ ~mounted
    /\ SetTab(Spawn([Tab EXCEPT !.mounted = TRUE,
                                !.tokenChanged = (localToken # NoToken),
                                !.checks[1] = "me1"],
                    "me", -1, FALSE, now))
    /\ UNCHANGED <<appVars, tokenVars, authVars, now, ticks, serverVars, historyVars, got>>

\* the [token] effect (lines 103-111)
TokenEffect ==
    /\ mounted /\ tokenChanged
    /\ IF localToken # NoToken /\ ~user
       THEN /\ checks[2] \in {"idle", "done"}
            /\ SetTab(Spawn([Tab EXCEPT !.tokenChanged = FALSE,
                                        !.checks[2] = "me1"],
                            "me", -2, TRUE, now))
       ELSE SetTab([Tab EXCEPT !.tokenChanged = FALSE,
                               !.user = IF localToken = NoToken THEN FALSE
                                                                ELSE @])
    /\ UNCHANGED <<appVars, tokenVars, authVars, now, ticks, serverVars, historyVars, got>>

\* a page makes a protected call; explicit: it passes
\* headers: { Authorization: "Bearer " + token } itself
StartCall(c, explicit) ==
    /\ mounted
    /\ calls[c].pc = "unused"
    /\ LET header == IF ~explicit THEN NoToken
                     ELSE IF localToken # NoToken THEN localToken
                     ELSE Garbage
       IN  SetTab(Send([Tab EXCEPT !.calls[c] =
                           [Unused EXCEPT !.kind = "api", !.icpt = TRUE,
                                          !.header = header]], c, now))
    /\ UNCHANGED <<appVars, tokenVars, authVars, now, ticks, serverVars, historyVars, got>>

\* what the tab has received, and the requests it has sent in reaction
Got(c, status, cs) ==
    [id |-> c, kind |-> calls[c].kind, led |-> (calls[c].owner > 0),
     status |-> status, sent |-> cs.log]

\* the server answers a protected call or /api/auth/me; permitted: the
\* route lets the authenticated user do what the call asks (else 403)
ReceiveProtected(c, permitted) ==
    /\ calls[c].pc = "sent"
    /\ calls[c].kind \in {"api", "me"}
    /\ calls[c].kind = "me" => permitted
    /\ LET ok == IF calls[c].kind = "api"
                 THEN getUserFromReq(Bearer(calls[c].header),
                                     calls[c].ckAccess, now)
                 ELSE meHandler(calls[c].ckAccess, userExists, now)
           ans == Rejected(IF ~ok THEN 401 ELSE IF permitted THEN 200 ELSE 403,
                           "none", refreshTokens)
           reacted == Deliver(Tab, c, ans, now)
       IN  /\ SetTab(reacted)
           /\ got' = Got(c, ans.status, reacted)
    /\ UNCHANGED <<appVars, tokenVars, authVars, now, ticks, serverVars, historyVars>>

\* the server answers POST /api/auth/refresh (handled at once here)
ReceiveRefresh(c) ==
    /\ calls[c].pc = "sent"
    /\ calls[c].kind = "refresh"
    /\ LET tok == calls[c].ckRefresh
           ans == IF refreshAdmits(tok, Exists(tok.userId), now)
                  THEN rotation(refreshTokens, refreshTokens, tok, TRUE, now)
                  ELSE refreshRejects(tok, refreshTokens)
           reacted == Deliver(Tab, c, ans, now)
       IN  /\ refreshTokens' = ans.ledger
           /\ last' = Response("refresh", tok, ans)
           /\ issued' = IF ans.status = 200 THEN issued \cup {ans.refresh}
                                            ELSE issued
           /\ redeemed' = IF ans.status = 200 THEN redeemed \cup {tok}
                                              ELSE redeemed
           /\ detected' = IF ans.status = 403 THEN issued ELSE detected
           /\ SetTab(reacted)
           /\ got' = Got(c, ans.status, reacted)
    /\ UNCHANGED <<appVars, tokenVars, authVars, now, ticks, userExists, reqs, revoked>>

\* the refresh call fails without a response (network error)
RefreshFails(c) ==
    /\ calls[c].pc = "sent"
    /\ calls[c].kind = "refresh"
    /\ LET reacted == Deliver(Tab, c, Rejected(0, "none", refreshTokens), now)
       IN  /\ SetTab(reacted)
           /\ got' = Got(c, 0, reacted)
    /\ UNCHANGED <<appVars, tokenVars, authVars, now, ticks, serverVars, historyVars>>

(* ------------------------ the authenticator alone ----------------------- *)
\* the requests getUserFromReq is given: headers of every shape, with and
\* without cookie, carrying tokens of either class and of either identity
AuthTokens ==
    {NoToken, Garbage, generateAccessToken(UserId, 0),
     generateAccessToken(OtherId, 0), generateRefreshToken(UserId, 0)}
AuthHeaders ==
    {NoHeader, <<"Bearer">>, <<"Basic">>}
        \cup {<<scheme, tok>> : scheme \in {"Bearer", "Basic"}, tok \in AuthTokens}
        \cup {<<"Bearer", tok, Garbage>> : tok \in AuthTokens}

NoRequest == [handled |-> FALSE, auth |-> NoHeader, cookie |-> NoToken]
NoReply == [route |-> 0, me |-> 0]

\* getUserFromReq(req) is called with a request
Authenticate(auth, cookie) ==
    /\ req' = [handled |-> TRUE, auth |-> auth, cookie |-> cookie]
    /\ ctx' = getUserFromReq(auth, cookie, now)
    /\ replied' = [route |-> routeStatus(auth, cookie, now),
                   me |-> meStatus(cookie, now)]
    /\ UNCHANGED <<now, ticks, serverVars, historyVars, clientVars, tokenVars,
                   appVars>>

(* ------------------------- the token helpers alone ---------------------- *)
NotVerified == [done |-> FALSE, tok |-> NoToken, at |-> 0,
                access |-> FALSE, refresh |-> FALSE]

\* the seconds a token is signed in
IssueTimes == {0, 1, 7}

\* the seconds that pass between two steps: around either lifetime
Delays ==
    {1, ACCESS_TOKEN_EXPIRY - 1, ACCESS_TOKEN_EXPIRY,
     REFRESH_TOKEN_EXPIRY - ACCESS_TOKEN_EXPIRY, REFRESH_TOKEN_EXPIRY}

\* generateAccessToken(user) or generateRefreshToken(user) is called
Mint(access) ==
    /\ minted' = IF access THEN generateAccessToken(UserId, now)
                           ELSE generateRefreshToken(UserId, now)
    /\ UNCHANGED <<appVars, now, ticks, serverVars, historyVars, clientVars,
                   authVars,
                   verified>>

\* verifyAccessToken(tok) and verifyRefreshToken(tok) are called; TRUE stands
\* for a payload and FALSE for null
Verify(tok) ==
    /\ verified' = [done |-> TRUE, tok |-> tok, at |-> now,
                    access |-> verifyAccessToken(tok, now),
                    refresh |-> verifyRefreshToken(tok, now)]
    /\ UNCHANGED <<appVars, now, ticks, serverVars, historyVars, clientVars,
                   authVars,
                   minted>>

(* ------------- POST /api/auth/forgot-password, reset-password ----------- *)
\* what crypto.randomBytes(32) can return, and the passwords of a request
\* body; password 0 is the one of the registration
ResetTokens == {1, 2}
Passwords == {1, 2}
ResetLifetime == 3600     \* Date.now() + 3600000 ms

NoReset == [hash |-> 0, expires |-> 0]
NoResetReq == [pc |-> "idle", password |-> 0]

AccountIdle ==
    /\ passwordHash = 0
    /\ resetPassword = NoReset
    /\ resetReq = NoResetReq

\* generatePasswordResetToken, save, sendMail; sent: the mail went out.
\* When sending fails the token is cleared again.
ForgotPassword(token, sent) ==
    /\ IF ~userExists
       THEN /\ last' = Response("forgot", NoToken,
                                Rejected(200, "none", refreshTokens))
            /\ UNCHANGED resetPassword
       ELSE /\ resetPassword' = IF sent
                                THEN [hash |-> token,
                                      expires |-> now + ResetLifetime]
                                ELSE NoReset
            /\ last' = Response("forgot", NoToken,
                                Rejected(IF sent THEN 200 ELSE 500, "none",
                                         refreshTokens))
    /\ UNCHANGED <<now, ticks, userExists, refreshTokens, reqs, historyVars,
                   clientVars, authVars, tokenVars, passwordHash, resetReq,
                   noteVars, dbVars>>

\* User.findOne({resetPasswordToken: hash, resetPasswordExpires: {$gt: now}})
resetFinds(token, exists, stored, t) ==
    exists /\ stored.hash = token /\ stored.expires > t

\* a reset that signs every session of the user out
resetUpdateRevoking(password, ledger) ==
    [passwordHash |-> password, resetPassword |-> NoReset, ledger |-> <<>>]

\* lines 53-56: the paths the handler sets, saved as $set / $unset of these
\* paths alone; refreshTokens is not among them
resetUpdate(password, ledger) ==
    [passwordHash |-> password, resetPassword |-> NoReset, ledger |-> ledger]

\* the checks of the body (valid: validatePassword passes) and the lookup
ResetFind(token, password, valid) ==
    /\ resetReq.pc = "idle"
    /\ IF token = 0 \/ ~valid
          \/ ~resetFinds(token, userExists, resetPassword, now)
       THEN /\ last' = Response("reset", NoToken,
                                Rejected(400, "none", refreshTokens))
            /\ UNCHANGED resetReq
       ELSE /\ resetReq' = [pc |-> "found", password |-> password]
            /\ UNCHANGED last
    /\ UNCHANGED <<now, ticks, userExists, refreshTokens, reqs, historyVars,
                   clientVars, authVars, tokenVars, passwordHash,
                   resetPassword, noteVars, dbVars>>

\* bcrypt.hash, the three assignments, user.save(), the response
ResetSave ==
    /\ resetReq.pc = "found"
    /\ LET saved == resetUpdate(resetReq.password, refreshTokens)
       IN  /\ passwordHash' = saved.passwordHash
           /\ resetPassword' = saved.resetPassword
           /\ refreshTokens' = saved.ledger
    /\ resetReq' = NoResetReq
    /\ last' = Response("reset", NoToken, Rejected(200, "none", refreshTokens))
    /\ UNCHANGED <<now, ticks, userExists, reqs, historyVars, clientVars,
                   authVars, tokenVars, noteVars, dbVars>>

(* ----------------- POST /api/notes, PUT /api/notes/:id ------------------ *)
\* the e-mail addresses: the owner's, a collaborator's, one a body carries
OwnerEmail == 1
CollaboratorEmail == 2
ForgedEmail == 3

\* who sends the request: getUserFromReq returns null for "anonymous"
Editors == {"anonymous", "owner", "collaborator", "admin", "stranger"}

\* the keys a body can hold that the handler names, and the schema paths
\* among the keys it leaves in rest
NamedKeys == {"reminderAt", "collaborators", "title", "content", "completed",
              "lastEditorEmail"}
RestKeys == {"originalContent", "reminderSent"}

\* a body: has is the set of the keys it holds, a key outside has is
\* undefined whatever the field says
EmptyBody ==
    [has |-> {}, title |-> 0, content |-> 0, completed |-> FALSE,
     reminderAt |-> 0, collaborators |-> {}, lastEditorEmail |-> 0,
     originalContent |-> 0, reminderSent |-> FALSE]

\* Note.create of the POST handler; reminderAt 0 is null
NewNote(content, reminderAt, collaborators) ==
    [title |-> 0, content |-> content, originalContent |-> content,
     completed |-> FALSE, reminderAt |-> reminderAt, reminderSent |-> FALSE,
     lastEditorEmail |-> OwnerEmail, collaborators |-> collaborators]

NoPut == [pc |-> "idle", status |-> 0, sets |-> FALSE,
          found |-> NewNote(0, 0, {}), doc |-> NewNote(0, 0, {})]

\* isOwner || isCollaborator || user.isAdmin
canEdit(editor, doc) ==
    \/ editor = "owner"
    \/ editor = "collaborator" /\ CollaboratorEmail \in doc.collaborators
    \/ editor = "admin"

\* validateNote on the fields the body provides: wellFormed stands for the
\* checks of title, content and collaborators; a reminder lies in the future
validateNote(body, wellFormed, t) ==
    /\ wellFormed \/ body.has \cap {"title", "content", "collaborators"} = {}
    /\ "reminderAt" \in body.has
         => (body.reminderAt = 0 \/ body.reminderAt > t)

\* lines 64-168: the assignments to the loaded document, in their order,
\* ending with Object.assign(note, rest)
putAssign(doc, body, editor) ==
    LET has(k) == k \in body.has
        d1 == IF has("reminderAt")
              THEN [doc EXCEPT !.reminderAt = body.reminderAt,
                               !.reminderSent = FALSE]
              ELSE doc
        d2 == IF has("completed")
              THEN [d1 EXCEPT !.completed = body.completed]
              ELSE d1
        d3 == IF has("content")
              THEN [d2 EXCEPT !.content = body.content]
              ELSE d2
        d4 == IF has("title") THEN [d3 EXCEPT !.title = body.title] ELSE d3
        d5 == IF (has("content") \/ has("title")) /\ editor = "owner"
              THEN [d4 EXCEPT !.lastEditorEmail = OwnerEmail]
              ELSE d4
        d6 == IF has("collaborators")
              THEN [d5 EXCEPT !.collaborators = body.collaborators]
              ELSE d5
    IN  [k \in DOMAIN d6 |->
            IF k \in RestKeys /\ has(k) THEN body[k] ELSE d6[k]]

\* note.save(): the paths whose value differs from the loaded one are $set
saveNote(stored, found, doc) ==
    [k \in DOMAIN stored |-> IF doc[k] # found[k] THEN doc[k] ELSE stored[k]]

Answered(status) == [NoPut EXCEPT !.status = status]

\* lines 10-168: the checks, Note.findById, the assignments
PutFind(body, editor, wellFormed) ==
    /\ putReq.pc = "idle"
    /\ body.has \subseteq NamedKeys \cup RestKeys
    /\ "reminderAt" \in body.has => setting < MaxSettings
    /\ putReq' =
         IF editor = "anonymous" THEN Answered(401)
         ELSE IF ~userExists THEN Answered(404)
         ELSE IF ~canEdit(editor, note) THEN Answered(403)
         ELSE IF note.completed /\ "completed" \notin body.has
              THEN Answered(403)
         ELSE IF ~validateNote(body, wellFormed, now) THEN Answered(400)
         ELSE [pc |-> "found", status |-> 0,
               sets |-> "reminderAt" \in body.has,
               found |-> note, doc |-> putAssign(note, body, editor)]
    /\ UNCHANGED <<now, ticks, serverVars, historyVars, clientVars, authVars,
                   tokenVars, accountVars, dbVars, note, checkers, setting,
                   mailed>>

\* lines 169-208: note.save() and the response
PutSave ==
    /\ putReq.pc = "found"
    /\ note' = saveNote(note, putReq.found, putReq.doc)
    /\ setting' = IF putReq.sets THEN setting + 1 ELSE setting
    /\ putReq' = Answered(200)
    /\ UNCHANGED <<now, ticks, serverVars, historyVars, clientVars, authVars,
                   tokenVars, accountVars, dbVars, checkers, mailed>>

(* -------------------------- reminder checkers --------------------------- *)
\* the background service, POST /api/reminders/check, the one-shot script
Checkers == {"service", "endpoint", "script"}

NoCheck == [pc |-> "idle", setting |-> 0]

\* Note.find({reminderAt: {$ne: null, $lte: now}, reminderSent: {$ne: true}})
isDue(doc, t) == doc.reminderAt # 0 /\ doc.reminderAt <= t /\ ~doc.reminderSent

\* the owner's address, when populate finds the owner, and the collaborators
recipients(doc, exists) ==
    (IF exists THEN {OwnerEmail} ELSE {}) \cup doc.collaborators

\* createTransporter and the query; smtp: a transporter was made. Without
\* one the service returns and the endpoint answers 500, the script goes on
\* and marks what it would have sent. A note without recipients is marked.
CheckFind(c, smtp) ==
    /\ checkers[c].pc = "idle"
    /\ smtp \/ c = "script"
    /\ isDue(note, now)
    /\ checkers' = [checkers EXCEPT ![c] =
         [pc |-> IF recipients(note, userExists) = {} \/ ~smtp
                 THEN "mark" ELSE "send",
          setting |-> setting]]
    /\ UNCHANGED <<now, ticks, serverVars, historyVars, clientVars, authVars,
                   tokenVars, accountVars, dbVars, note, putReq, setting,
                   mailed>>

\* transporter.sendMail; ok: it resolved. A rejection is logged.
CheckSend(c, ok) ==
    /\ checkers[c].pc = "send"
    /\ IF ok
       THEN /\ mailed[checkers[c].setting] < MaxMails
            /\ mailed' = [mailed EXCEPT ![checkers[c].setting] = @ + 1]
            /\ checkers' = [checkers EXCEPT ![c].pc = "mark"]
       ELSE /\ checkers' = [checkers EXCEPT ![c] = NoCheck]
            /\ UNCHANGED mailed
    /\ UNCHANGED <<now, ticks, serverVars, historyVars, clientVars, authVars,
                   tokenVars, accountVars, dbVars, note, putReq, setting>>

\* Note.findByIdAndUpdate(note._id, {reminderSent: true})
CheckMark(c) ==
    /\ checkers[c].pc = "mark"
    /\ note' = [note EXCEPT !.reminderSent = TRUE]
    /\ checkers' = [checkers EXCEPT ![c] = NoCheck]
    /\ UNCHANGED <<now, ticks, serverVars, historyVars, clientVars, authVars,
                   tokenVars, accountVars, dbVars, putReq, setting, mailed>>

NoteIdle ==
    /\ note = NewNote(0, 0, {})
    /\ putReq = NoPut
    /\ checkers = [c \in Checkers |-> NoCheck]
    /\ setting = 0
    /\ mailed = [s \in 0..MaxSettings |-> 0]

(* ------------------------------ dbConnect ------------------------------- *)
\* the handlers that call dbConnect at the same time
DbCallers == {1, 2, 3, 4}

\* cached = global.mongoose = {conn: null, promise: null}; a connection and
\* the promise of it carry the number of the mongoose.connect call that
\* made them, 0 is null
NoCache == [conn |-> 0, promise |-> [state |-> "null", id |-> 0]]
NoDbCall == [pc |-> "idle", result |-> 0]

\* a dbConnect that connects whenever no connection is established yet
connectsAnewWhilePending(cache) == TRUE

\* line 29: if (!cached.promise)
connectsAnew(cache) == cache.promise.state = "null"

\* lines 24-39, up to the await: an established connection is returned,
\* otherwise the call awaits cached.promise, which it creates when needed
DbCall(c) ==
    /\ dbCalls[c].pc # "awaiting"
    /\ IF cached.conn # 0
       THEN /\ dbCalls' = [dbCalls EXCEPT ![c] =
                             [pc |-> "returned", result |-> cached.conn]]
            /\ UNCHANGED <<cached, connects>>
       ELSE /\ dbCalls' = [dbCalls EXCEPT ![c] =
                             [pc |-> "awaiting", result |-> 0]]
            /\ IF connectsAnew(cached)
               THEN /\ connects < MaxConnects
                    /\ connects' = connects + 1
                    /\ cached' = [cached EXCEPT !.promise =
                                    [state |-> "pending", id |-> connects + 1]]
               ELSE UNCHANGED <<cached, connects>>
    /\ UNCHANGED <<now, ticks, serverVars, historyVars, clientVars, authVars,
                   tokenVars, accountVars, noteVars>>

\* mongoose.connect settles; ok: it resolved
Connected(ok) ==
    /\ cached.promise.state = "pending"
    /\ cached' = [cached EXCEPT !.promise.state =
                    IF ok THEN "fulfilled" ELSE "rejected"]
    /\ UNCHANGED <<now, ticks, serverVars, historyVars, clientVars, authVars,
                   tokenVars, accountVars, noteVars, connects, dbCalls>>

\* lines 39-40: the await returns or throws; cached.conn = await ...
DbResume(c) ==
    /\ dbCalls[c].pc = "awaiting"
    /\ cached.promise.state \in {"fulfilled", "rejected"}
    /\ IF cached.promise.state = "fulfilled"
       THEN /\ cached' = [cached EXCEPT !.conn = cached.promise.id]
            /\ dbCalls' = [dbCalls EXCEPT ![c] =
                             [pc |-> "returned", result |-> cached.promise.id]]
       ELSE /\ dbCalls' = [dbCalls EXCEPT ![c] =
                             [pc |-> "threw", result |-> 0]]
            /\ UNCHANGED cached
    /\ UNCHANGED <<now, ticks, serverVars, historyVars, clientVars, authVars,
                   tokenVars, accountVars, noteVars, connects>>

DbIdle ==
    /\ cached = NoCache
    /\ connects = 0
    /\ dbCalls = [c \in DbCallers |-> NoDbCall]

\* the parts of the application outside a specification are at rest
AppIdle == AccountIdle /\ NoteIdle /\ DbIdle

(* -------------------------------- clock --------------------------------- *)
Tick(d, max) ==
    /\ ticks < max
    /\ ticks' = ticks + 1
    /\ now' = now + d
    /\ UNCHANGED <<serverVars, historyVars, clientVars, authVars, tokenVars,
                   appVars>>

(* ---------------------------- specifications ---------------------------- *)
Init ==
    /\ now = 0
    /\ ticks = 0
    /\ userExists = FALSE
    /\ refreshTokens = <<>>
    /\ reqs = [s \in Slots |-> Idle]
    /\ last = NoResponse
    /\ issued = {}
    /\ redeemed = {}
    /\ revoked = {}
    /\ detected = {}
    /\ mounted = FALSE
    /\ jar = [access |-> NoToken, refresh |-> NoToken]
    /\ localToken = NoToken
    /\ tokenChanged = FALSE
    /\ user = FALSE
    /\ atLogin = FALSE
    /\ isRefreshing = FALSE
    /\ refreshSubscribers = <<>>
    /\ calls = [c \in CallIds |-> Unused]
    /\ checks = [i \in Checks |-> "idle"]
    /\ got = NothingGot
    /\ req = NoRequest
    /\ ctx = FALSE
    /\ replied = NoReply
    /\ minted = NoToken
    /\ verified = NotVerified
    /\ AppIdle

\* requests of any callers, handled concurrently
Next ==
    \/ \E s \in Slots : RegisterCreate(s)
    \/ \E s \in Slots : RegisterSave(s)
    \/ \E s \in Slots, ok \in BOOLEAN :
          Len(refreshTokens) < MaxRaceLedger /\ LoginFind(s, ok)
    \/ \E s \in Slots : LoginSave(s)
    \/ \E s \in Slots, tok \in Presentable : RefreshFind(s, tok)
    \/ \E s \in Slots : RefreshSave(s)
    \/ \E s \in Slots, tok \in Presentable : LogoutFind(s, tok)
    \/ \E s \in Slots : LogoutSave(s)
    \/ Tick(1, MaxRaceTicks)

Spec == Init /\ [][Next]_vars

\* requests handled one at a time
NextSeq ==
    \/ RegisterCreate(1)
    \/ RegisterSave(1)
    \/ \E ok \in BOOLEAN : Len(refreshTokens) < MaxSeqLedger /\ LoginFind(1, ok)
    \/ LoginSave(1)
    \/ \E tok \in Presentable : RefreshFind(1, tok)
    \/ RefreshSave(1)
    \/ \E tok \in Presentable : LogoutFind(1, tok)
    \/ LogoutSave(1)
    \/ \E d \in {1, REFRESH_TOKEN_EXPIRY} : Tick(d, MaxTicks)

SpecSeq == Init /\ [][NextSeq]_vars

\* one tab, opened on a session that a login at second 0 has established
InitClient ==
    /\ now = 0
    /\ ticks = 0
    /\ userExists = TRUE
    /\ refreshTokens = <<generateRefreshToken(UserId, 0)>>
    /\ reqs = [s \in Slots |-> Idle]
    /\ last = Response("login", NoToken,
                       issueOnLogin(<<>>, TRUE, 0))
    /\ issued = {generateRefreshToken(UserId, 0)}
    /\ redeemed = {}
    /\ revoked = {}
    /\ detected = {}
    /\ mounted = FALSE
    /\ jar = [access |-> generateAccessToken(UserId, 0),
              refresh |-> generateRefreshToken(UserId, 0)]
    /\ localToken = generateAccessToken(UserId, 0)
    /\ tokenChanged = FALSE
    /\ user = FALSE
    /\ atLogin = FALSE
    /\ isRefreshing = FALSE
    /\ refreshSubscribers = <<>>
    /\ calls = [c \in CallIds |-> Unused]
    /\ checks = [i \in Checks |-> "idle"]
    /\ got = NothingGot
    /\ req = NoRequest
    /\ ctx = FALSE
    /\ replied = NoReply
    /\ minted = NoToken
    /\ verified = NotVerified
    /\ AppIdle

NextClient ==
    \/ Mount
    \/ TokenEffect
    \/ \E c \in AppCalls, explicit \in BOOLEAN : StartCall(c, explicit)
    \/ \E c \in CallIds, permitted \in BOOLEAN : ReceiveProtected(c, permitted)
    \/ \E c \in CallIds : ReceiveRefresh(c)
    \/ \E c \in CallIds : RefreshFails(c)
    \/ \E d \in {ACCESS_TOKEN_EXPIRY, REFRESH_TOKEN_EXPIRY} :
          Tick(d, MaxClientTicks)

SpecClient == InitClient /\ [][NextClient]_vars

\* the same tab with a server that answers every request it has received
ClientFairness ==
    \A c \in CallIds :
        /\ WF_vars(\E permitted \in BOOLEAN : ReceiveProtected(c, permitted))
        /\ WF_vars(ReceiveRefresh(c))

SpecClientLive == InitClient /\ [][NextClient]_vars /\ ClientFairness

\* getUserFromReq on its own: any request, at a second before or after the
\* access lifetime, with or without the user's document; the same tokens are
\* presented to /api/auth/refresh as well
InitAuth ==
    /\ now \in {0, ACCESS_TOKEN_EXPIRY}
    /\ ticks = 0
    /\ userExists \in BOOLEAN
    /\ refreshTokens \in {<<>>, <<generateRefreshToken(UserId, 0)>>}
    /\ reqs = [s \in Slots |-> Idle]
    /\ last = NoResponse
    /\ issued = {}
    /\ redeemed = {}
    /\ revoked = {}
    /\ detected = {}
    /\ mounted = FALSE
    /\ jar = [access |-> NoToken, refresh |-> NoToken]
    /\ localToken = NoToken
    /\ tokenChanged = FALSE
    /\ user = FALSE
    /\ atLogin = FALSE
    /\ isRefreshing = FALSE
    /\ refreshSubscribers = <<>>
    /\ calls = [c \in CallIds |-> Unused]
    /\ checks = [i \in Checks |-> "idle"]
    /\ got = NothingGot
    /\ req = NoRequest
    /\ ctx = FALSE
    /\ replied = NoReply
    /\ minted = NoToken
    /\ verified = NotVerified
    /\ AppIdle

NextAuth ==
    \/ \E auth \in AuthHeaders, cookie \in AuthTokens :
          Authenticate(auth, cookie)
    \/ \E tok \in AuthTokens : RefreshFind(1, tok)
    \/ RefreshSave(1)

SpecAuth == InitAuth /\ [][NextAuth]_vars

\* the token helpers on their own: tokens of either class are signed and
\* verified while the clock advances
InitToken ==
    /\ now \in IssueTimes
    /\ ticks = 0
    /\ userExists = TRUE
    /\ refreshTokens = <<>>
    /\ reqs = [s \in Slots |-> Idle]
    /\ last = NoResponse
    /\ issued = {}
    /\ redeemed = {}
    /\ revoked = {}
    /\ detected = {}
    /\ mounted = FALSE
    /\ jar = [access |-> NoToken, refresh |-> NoToken]
    /\ localToken = NoToken
    /\ tokenChanged = FALSE
    /\ user = FALSE
    /\ atLogin = FALSE
    /\ isRefreshing = FALSE
    /\ refreshSubscribers = <<>>
    /\ calls = [c \in CallIds |-> Unused]
    /\ checks = [i \in Checks |-> "idle"]
    /\ got = NothingGot
    /\ req = NoRequest
    /\ ctx = FALSE
    /\ replied = NoReply
    /\ minted = NoToken
    /\ verified = NotVerified
    /\ AppIdle

NextToken ==
    \/ \E access \in BOOLEAN : Mint(access)
    \/ \E tok \in {minted, Garbage} : Verify(tok)
    \/ \E d \in Delays : Tick(d, MaxTokenTicks)

SpecToken == InitToken /\ [][NextToken]_vars

\* a registered user with one or two sessions asks for password resets and
\* resets the password while the sessions refresh
InitReset ==
    /\ now = 0
    /\ ticks = 0
    /\ userExists = TRUE
    /\ refreshTokens \in {<<generateRefreshToken(UserId, 0)>>,
                          <<generateRefreshToken(UserId, 0),
                            generateRefreshToken(UserId, 0)>>}
    /\ reqs = [s \in Slots |-> Idle]
    /\ last = NoResponse
    /\ issued = {generateRefreshToken(UserId, 0)}
    /\ redeemed = {}
    /\ revoked = {}
    /\ detected = {}
    /\ mounted = FALSE
    /\ jar = [access |-> NoToken, refresh |-> NoToken]
    /\ localToken = NoToken
    /\ tokenChanged = FALSE
    /\ user = FALSE
    /\ atLogin = FALSE
    /\ isRefreshing = FALSE
    /\ refreshSubscribers = <<>>
    /\ calls = [c \in CallIds |-> Unused]
    /\ checks = [i \in Checks |-> "idle"]
    /\ got = NothingGot
    /\ req = NoRequest
    /\ ctx = FALSE
    /\ replied = NoReply
    /\ minted = NoToken
    /\ verified = NotVerified
    /\ AccountIdle
    /\ NoteIdle
    /\ DbIdle

NextReset ==
    \/ \E token \in ResetTokens, sent \in BOOLEAN : ForgotPassword(token, sent)
    \/ \E token \in {0} \cup ResetTokens, password \in Passwords,
          valid \in BOOLEAN : ResetFind(token, password, valid)
    \/ ResetSave
    \/ \E tok \in Presentable : RefreshFind(1, tok)
    \/ RefreshSave(1)
    \/ \E d \in {1, ResetLifetime} : Tick(d, MaxResetTicks)

SpecReset == InitReset /\ [][NextReset]_vars

\* nobody is registering, logging in, refreshing or calling the API
SessionsIdle ==
    /\ now = 0
    /\ ticks = 0
    /\ refreshTokens = <<>>
    /\ reqs = [s \in Slots |-> Idle]
    /\ last = NoResponse
    /\ issued = {}
    /\ redeemed = {}
    /\ revoked = {}
    /\ detected = {}
    /\ mounted = FALSE
    /\ jar = [access |-> NoToken, refresh |-> NoToken]
    /\ localToken = NoToken
    /\ tokenChanged = FALSE
    /\ user = FALSE
    /\ atLogin = FALSE
    /\ isRefreshing = FALSE
    /\ refreshSubscribers = <<>>
    /\ calls = [c \in CallIds |-> Unused]
    /\ checks = [i \in Checks |-> "idle"]
    /\ got = NothingGot
    /\ req = NoRequest
    /\ ctx = FALSE
    /\ replied = NoReply
    /\ minted = NoToken
    /\ verified = NotVerified

\* a note its owner has created, with or without a collaborator; the owner's
\* account may have been deleted since. PUT requests arrive one at a time.
InitNote ==
    /\ SessionsIdle
    /\ userExists \in BOOLEAN
    /\ AccountIdle
    /\ DbIdle
    /\ \E content \in {0, 1}, collaborators \in SUBSET {CollaboratorEmail} :
          note = NewNote(content, 0, collaborators)
    /\ putReq = NoPut
    /\ checkers = [c \in Checkers |-> NoCheck]
    /\ setting = 0
    /\ mailed = [s \in 0..MaxSettings |-> 0]

\* the bodies of the edits: every combination of the content keys
EditBodies ==
    {[EmptyBody EXCEPT !.has = has, !.title = 1, !.content = 1,
                       !.completed = completed,
                       !.collaborators = {CollaboratorEmail},
                       !.lastEditorEmail = ForgedEmail,
                       !.originalContent = 2] :
        has \in SUBSET {"title", "content", "completed", "collaborators",
                        "lastEditorEmail", "originalContent"},
        completed \in BOOLEAN}

NextNote ==
    \/ \E body \in EditBodies, editor \in Editors, wellFormed \in BOOLEAN :
          PutFind(body, editor, wellFormed)
    \/ PutSave

SpecNote == InitNote /\ [][NextNote]_vars

\* a note with a reminder one second ahead, or none; the three checkers run
\* while PUT requests change the reminder
InitReminder ==
    /\ SessionsIdle
    /\ userExists \in BOOLEAN
    /\ AccountIdle
    /\ DbIdle
    /\ \E reminderAt \in {0, 1}, collaborators \in SUBSET {CollaboratorEmail} :
          note = NewNote(0, reminderAt, collaborators)
    /\ putReq = NoPut
    /\ checkers = [c \in Checkers |-> NoCheck]
    /\ setting = 0
    /\ mailed = [s \in 0..MaxSettings |-> 0]

\* the bodies that touch the reminder: a time or null, and the sent flag
ReminderBodies ==
    {[EmptyBody EXCEPT !.has = has, !.reminderAt = reminderAt,
                       !.reminderSent = reminderSent] :
        has \in (SUBSET {"reminderAt", "reminderSent"}) \ {{}},
        reminderAt \in 0..MaxReminderTicks, reminderSent \in BOOLEAN}

NextReminder ==
    \/ \E body \in ReminderBodies : PutFind(body, "owner", TRUE)
    \/ PutSave
    \/ \E c \in Checkers, smtp \in BOOLEAN : CheckFind(c, smtp)
    \/ \E c \in Checkers, ok \in BOOLEAN : CheckSend(c, ok)
    \/ \E c \in Checkers : CheckMark(c)
    \/ Tick(1, MaxReminderTicks)

SpecReminder == InitReminder /\ [][NextReminder]_vars

\* handlers call dbConnect, at the same time and one after another
InitDb ==
    /\ SessionsIdle
    /\ userExists = FALSE
    /\ AccountIdle
    /\ NoteIdle
    /\ DbIdle

NextDb ==
    \/ \E c \in DbCallers : DbCall(c)
    \/ \E ok \in BOOLEAN : Connected(ok)
    \/ \E c \in DbCallers : DbResume(c)

SpecDb == InitDb /\ [][NextDb]_vars

(* ======================================================================== *)
(*                                 claims                                   *)
(* ======================================================================== *)
\* slot s answers in this step a request whose document it had read
Answers(s) == reqs[s].pc = "found" /\ reqs'[s].pc = "idle"

\* C1: a refresh token is redeemed at most once: a refresh request that
\* presents a value an earlier rotation has redeemed, and gets past the
\* signature and identity checks, is answered 403 and leaves the ledger
\* empty.
C1_RedeemedOnce ==
    [][\A s \in Slots :
          (Answers(s) /\ reqs[s].op = "refresh" /\ reqs[s].cookie \in redeemed)
          => (last'.status = 403 /\ refreshTokens' = <<>>)]_vars

\* C3: a value redeemed by a rotation or removed by a logout is not in the
\* ledger.
C3_RedeemedAbsent ==
    \A tok \in redeemed \cup revoked : tok \notin Range(refreshTokens)

\* C4: the ledger never holds more than LedgerCap entries.
C4_LedgerCapped == Len(refreshTokens) <= LedgerCap

\* C5: a successful rotation delivers a refresh token that differs from the
\* one redeemed.
C5_RotationChangesValue ==
    (last.op = "refresh" /\ last.status = 200) => last.refresh # last.cookie

\* C2: of two refresh requests that present the same value t, both having
\* read a ledger that holds t before either saved, one is answered 200 and
\* the other 403.
C2_OneWinsOtherReuse ==
    [][\A s \in Slots :
          (/\ Answers(s) /\ reqs[s].op = "refresh"
           /\ findIndex(reqs[s].doc, reqs[s].cookie, 1) # 0
           /\ reqs[s].peer.op = "refresh"
           /\ reqs[s].peer.cookie = reqs[s].cookie)
          => {reqs[s].peer.status, last'.status} = {200, 403}]_vars

\* the value a successful request adds to the ledger, and the one it removes
IssuedBy(op, refresh) ==
    IF op \in {"register", "login", "refresh"} THEN {refresh} ELSE {}
RemovedBy(op, cookie) ==
    IF op \in {"refresh", "logout"} THEN {cookie} ELSE {}

\* C10: when two successful requests overlap, the ledger after the later
\* one holds every value either has issued and none either has removed.
C10_BothReflected ==
    [][\A s \in Slots :
          (Answers(s) /\ last'.status = 200 /\ reqs[s].peer.status = 200)
          => LET add == IssuedBy(reqs[s].op, last'.refresh)
                          \cup IssuedBy(reqs[s].peer.op, reqs[s].peer.refresh)
                 del == RemovedBy(reqs[s].op, reqs[s].cookie)
                          \cup RemovedBy(reqs[s].peer.op, reqs[s].peer.cookie)
             IN  /\ add \subseteq Range(refreshTokens')
                 /\ del \cap Range(refreshTokens') = {}]_vars

\* C9: after a 403, a refresh request that presents a value issued before
\* it, and gets past the signature and identity checks, is answered 403.
C9_DetectionTerminal ==
    [][\A s \in Slots :
          (Answers(s) /\ reqs[s].op = "refresh" /\ reqs[s].cookie \in detected)
          => last'.status = 403]_vars

\* the POST /api/auth/refresh calls that are outstanding
RefreshOutstanding ==
    {c \in CallIds : calls[c].kind = "refresh" /\ calls[c].pc = "sent"}

\* C6: the tab never has more than one refresh call outstanding.
C6_SingleFlight == Cardinality(RefreshOutstanding) <= 1

\* the access credential the server reads from a request: /api/auth/me reads
\* the cookie; the other routes read the header and, without one, the cookie
Credential(call) ==
    IF call.kind = "api" /\ call.header # NoToken THEN call.header
    ELSE call.ckAccess

\* C7: every call replayed after a successful refresh carries the access
\* credential that refresh has delivered, not the one that was rejected.
C7_ReplayCarriesRefreshed ==
    [][\A c \in CallIds :
          (~calls[c].replayed /\ calls'[c].replayed)
          => Credential(calls'[c]) = last'.access]_vars

\* C8: when the refresh call a leader awaits fails, with whatever outcome,
\* the in-flight flag is reset and the queue is dropped.
C8_FailureResets ==
    [][\A c \in CallIds :
          (/\ calls[c].kind = "refresh" /\ calls[c].pc = "sent"
           /\ calls[c].owner > 0
           /\ got'.id = c /\ got'.status # 200
           /\ calls'[c].pc # "sent")
          => (~isRefreshing' /\ refreshSubscribers' = <<>>)]_vars

\* C11: a refresh request that presents a value a logout has removed, and is
\* answered after the ledger was read, is not answered 200 and leaves the
\* ledger empty.
C11_LoggedOutRefused ==
    [][\A s \in Slots :
          (Answers(s) /\ reqs[s].op = "refresh" /\ reqs[s].cookie \in revoked)
          => (last'.status # 200 /\ refreshTokens' = <<>>)]_vars

\* C12: a rotation answered 200 removes one entry holding the redeemed value,
\* appends the delivered refresh value as the newest entry and keeps the
\* other entries in their order; beyond LedgerCap the oldest entry goes.
C12_RotationFrame ==
    [][\A s \in Slots :
          (Answers(s) /\ reqs[s].op = "refresh" /\ last'.status = 200)
          => /\ last'.cookies = "set"
             /\ \E i \in 1..Len(refreshTokens) :
                   /\ refreshTokens[i] = reqs[s].cookie
                   /\ LET n == Len(refreshTokens)
                          P == [j \in 1..n |->
                                  IF j < i THEN refreshTokens[j]
                                  ELSE IF j < n THEN refreshTokens[j + 1]
                                  ELSE last'.refresh]
                      IN  \/ n <= LedgerCap /\ refreshTokens' = P
                          \/ n > LedgerCap /\ refreshTokens' = Tail(P)]_vars

\* a rotation has been answered 200 on a ledger of several entries
C12_Rotated ==
    /\ last.op = "refresh" /\ last.status = 200
    /\ Len(refreshTokens) >= 2
    /\ last.cookie # last.refresh
    /\ refreshTokens[1] = last.cookie
    /\ refreshTokens[Len(refreshTokens)] = last.refresh

\* a refresh_token cookie that is absent, malformed or wrongly signed,
\* expired at second t, or signed for an identity that has no document
Unacceptable(tok, t) ==
    \/ tok \in {NoToken, Garbage, Orphan}
    \/ tok.cls = "refresh" /\ t >= tok.iat + REFRESH_TOKEN_EXPIRY

\* C13: a refresh request with such a cookie never gets as far as the
\* ledger; it is answered 401 and the ledger is unchanged.
C13_BadTokenRefused ==
    [][/\ \A s \in Slots :
             (reqs[s].pc = "idle" /\ reqs'[s].pc = "found"
                 /\ reqs'[s].op = "refresh")
             => ~Unacceptable(reqs'[s].cookie, now)
       /\ (reqs' = reqs /\ last' # last /\ last'.op = "refresh"
              /\ Unacceptable(last'.cookie, now))
          => (last'.status = 401 /\ refreshTokens' = refreshTokens)]_vars

\* an expired token of the identity has been refused while the ledger holds
\* entries
C13_ExpiredRefused ==
    /\ last.op = "refresh" /\ last.status = 401
    /\ last.cookie \in issued /\ now >= last.cookie.iat + REFRESH_TOKEN_EXPIRY
    /\ refreshTokens # <<>>

\* C14: a logout request removes the presented value from the ledger and
\* nothing else, and is answered 200 with both cookies cleared, whatever the
\* cookie it presents.
C14_LogoutFrame ==
    [][/\ \A s \in Slots :
             (Answers(s) /\ reqs[s].op = "logout")
             => /\ last'.status = 200 /\ last'.cookies = "cleared"
                /\ refreshTokens' = filterOut(refreshTokens, reqs[s].cookie)
       /\ (reqs' = reqs /\ last' # last /\ last'.op = "logout")
          => /\ last'.status = 200 /\ last'.cookies = "cleared"
             /\ refreshTokens' = refreshTokens]_vars

\* call c is answered in this step
AnsweredNow(c) == calls[c].pc = "sent" /\ calls'[c] # calls[c] /\ got'.id = c

\* the refresh call a leader awaits is answered 200 in this step
LedRefreshResolves ==
    \E r \in CallIds :
        /\ AnsweredNow(r) /\ calls[r].kind = "refresh" /\ calls[r].owner > 0
        /\ got'.status = 200

\* the ids of the calls replayed in the step that ends in got, in order
Replayed(g) ==
    LET es == SelectSeq(g.sent, LAMBDA e : e.replay)
    IN  [i \in 1..Len(es) |-> es[i].id]

\* C15: a queued call leaves the queue only in the step in which the led
\* refresh call resolves, and in that step the queued calls are replayed in
\* the order of the queue, before the leader's own call.
C15_ReplayOrder ==
    [][/\ \A c \in CallIds :
             (calls[c].pc = "queued" /\ calls'[c].pc # "queued")
             => LedRefreshResolves
       /\ LedRefreshResolves
          => \E leader \in CallIds :
                Replayed(got') = Append(refreshSubscribers, leader)]_vars

\* two queued calls and the leader's call have been replayed
C15_QueueReplayed ==
    /\ got.kind = "refresh" /\ got.led /\ got.status = 200
    /\ Len(Replayed(got)) >= 3

\* C16: while no refresh call is outstanding the queue is empty.
C16_QueueEmptyWhenIdle ==
    RefreshOutstanding = {} => refreshSubscribers = <<>>

\* the refresh calls outstanding that a leader awaits
LedOutstanding ==
    {c \in RefreshOutstanding : calls[c].owner > 0}

\* the refresh call a leader awaits is answered in this step
LedRefreshAnswered ==
    \E r \in CallIds :
        AnsweredNow(r) /\ calls[r].kind = "refresh" /\ calls[r].owner > 0

C18_ForbiddenNotRefreshed ==
    [][\A c \in CallIds :
          (AnsweredNow(c) /\ got'.status = 403)
          => /\ \A i \in 1..Len(got'.sent) : got'.sent[i].kind # "refresh"
             /\ calls[c].kind = "api"
                => (calls'[c].pc = "rejected" /\ calls'[c].status = 403)
             /\ calls[c].kind = "refresh"
                => (~user' /\ (calls[c].owner > 0 => atLogin'))]_vars

\* the refresh call a leader awaited has been answered 403
C18_ReuseReceived ==
    /\ got.kind = "refresh" /\ got.led /\ got.status = 403
    /\ atLogin /\ ~user /\ ~isRefreshing

\* an access credential that is valid at second t
AccessValid(tok, t) ==
    tok.cls = "access" /\ t < tok.iat + ACCESS_TOKEN_EXPIRY

\* C19: /api/auth/me answers 200 exactly when the request carries a valid
\* access credential in the Authorization header or in the cookie.
C19_MeEitherCarrier ==
    [][\A c \in CallIds :
          (AnsweredNow(c) /\ calls[c].kind = "me")
          => (got'.status = 200
                <=> /\ userExists
                    /\ \/ AccessValid(calls[c].header, now)
                       \/ AccessValid(calls[c].ckAccess, now))]_vars

\* C20: getUserFromReq takes the token of a well-formed 'Bearer <token>'
\* header, and the access_token cookie only when the header gave none; it
\* returns a user exactly when that one token verifies and its identity has a
\* document.
C20_AuthenticatorExtraction ==
    req.handled
    => LET wellFormed == /\ Len(req.auth) = 2 /\ req.auth[1] = "Bearer"
                         /\ req.auth[2] # NoToken
           tok == IF wellFormed THEN req.auth[2] ELSE req.cookie
       IN  ctx <=> /\ tok # NoToken
                   /\ verifyAccessToken(tok, now)
                   /\ tok.userId = UserId /\ userExists

\* a request with an invalid bearer token and a valid cookie has been
\* refused: the cookie was not consulted
C20_HeaderWins ==
    /\ req.handled /\ userExists /\ now = 0
    /\ req.auth = <<"Bearer", Garbage>>
    /\ req.cookie = generateAccessToken(UserId, 0)
    /\ ~ctx

\* C21: an access token signed at second T verifies at every second before
\* T + 15 min and is refused (null) from T + 15 min on; a refresh token is
\* refused from T + 7 days on and verifies before.
C21_ExpiryBoundary ==
    (verified.done /\ verified.tok.cls \in {"access", "refresh"})
    => LET T == verified.tok.iat
       IN  /\ verified.tok.cls = "access"
              => (verified.access <=> verified.at < T + ACCESS_TOKEN_EXPIRY)
           /\ verified.tok.cls = "refresh"
              => (verified.refresh <=> verified.at < T + REFRESH_TOKEN_EXPIRY)

\* an access token has been refused in the very second its lifetime ends
C21_RefusedAtExpiry ==
    /\ verified.done /\ verified.tok.cls = "access"
    /\ verified.at = verified.tok.iat + ACCESS_TOKEN_EXPIRY
    /\ ~verified.access

C23_CookiesFollowOutcome ==
    /\ (last.op \in {"login", "register", "refresh"} /\ last.status = 200)
       => /\ last.cookies = "set"
          /\ last.access.cls = "access" /\ last.refresh.cls = "refresh"
          /\ last.refresh \in Range(refreshTokens)
    /\ last.op = "logout" => last.cookies = "cleared"
    /\ (last.op = "refresh" /\ last.cookie # NoToken
           /\ last.status \in {401, 403})
       => last.cookies = "cleared"

\* C24: when the refresh call a leader awaits fails and the leader's catch
\* block runs, the tab is left without stored access token and without user,
\* at the login page.
C24_FailureClearsCredential ==
    [][\A c \in CallIds :
          (/\ AnsweredNow(c) /\ calls[c].kind = "refresh" /\ calls[c].owner > 0
           /\ got'.status # 200 /\ calls'[c].pc # "sent" /\ atLogin')
          => (localToken' = NoToken /\ ~user')]_vars

\* an access token with a good signature, not expired at second t, whose
\* identity has no document
Deleted(tok, t) ==
    /\ tok.cls = "access" /\ t < tok.iat + ACCESS_TOKEN_EXPIRY
    /\ ~(tok.userId = UserId /\ userExists)

AwaitsRefresh(c) == calls[c].pc \in {"leading", "queued"}

\* C26: a call that a 401 has made wait for a refresh will be settled, and
\* the in-flight flag will return to false.  A waiting call is settled, and
\* the flag reset, only by the answer to the refresh call a leader awaits;
\* so while a call waits or the flag is set, such a refresh call is
\* outstanding, which the server is bound to answer.
C26_WaitingWillSettle ==
    /\ \A c \in CallIds : AwaitsRefresh(c) => LedOutstanding # {}
    /\ isRefreshing => LedOutstanding # {}

\* C27: a token signed as a refresh token is not accepted as an access
\* token, neither by getUserFromReq and the routes behind it nor by
\* /api/auth/me; a token signed as an access token and presented to
\* /api/auth/refresh is answered 401 and the ledger is left as it is.
C27_ClassesDistinguished ==
    [][/\ (req'.handled
              /\ extractToken(req'.auth, req'.cookie).cls = "refresh")
          => (~ctx' /\ replied'.route = 401)
       /\ (req'.handled /\ req'.cookie.cls = "refresh") => replied'.me = 401
       /\ \A s \in Slots :
             (reqs[s].pc = "idle" /\ reqs'[s].pc = "found"
                 /\ reqs'[s].op = "refresh")
             => reqs'[s].cookie.cls # "access"
       /\ (last' # last /\ last'.op = "refresh"
              /\ last'.cookie.cls = "access")
          => (last'.status = 401 /\ refreshTokens' = refreshTokens)]_vars

\* C28: a refresh request is answered 403 only when the value it presents
\* has been redeemed by a rotation or removed by a logout, or after an
\* earlier 403 for the identity; a value that was issued and neither
\* redeemed nor logged out is not answered 403 before any 403 has occurred.
C28_OnlyGenuineReuse ==
    [][\A s \in Slots :
          (Answers(s) /\ reqs[s].op = "refresh" /\ last'.status = 403)
          => \/ reqs[s].cookie \in redeemed \cup revoked
             \/ detected # {}]_vars

\* C29: the entries of the ledger are pairwise distinct values.
C29_LedgerValuesDistinct ==
    \A i, j \in 1..Len(refreshTokens) :
        i # j => refreshTokens[i] # refreshTokens[j]

\* C30: a call whose config is marked _retry and which gets another 401 is
\* handed to its caller as an error: it leads no refresh call and is not
\* queued; a call becomes leader only while unmarked, and is marked from
\* then on, so no call leads twice.
C30_LeadsAtMostOnce ==
    [][\A c \in CallIds :
          /\ (AnsweredNow(c) /\ calls[c].retry /\ got'.status = 401)
             => /\ ~AwaitsRefresh(c)'
                /\ calls[c].owner = 0
                   => (calls'[c].pc = "rejected" /\ calls'[c].status = 401)
                /\ \A r \in CallIds :
                      ~(calls'[r].kind = "refresh" /\ calls'[r].owner = c)
                /\ \A i \in 1..Len(refreshSubscribers') :
                      refreshSubscribers'[i] # c
          /\ (calls[c].pc # "leading" /\ calls'[c].pc = "leading")
             => (~calls[c].retry /\ calls'[c].retry)
          /\ (calls[c].retry /\ calls'[c].pc \in {"sent", "leading", "queued"}
                 /\ calls'[c].owner = calls[c].owner
                 /\ calls'[c].kind = calls[c].kind)
             => calls'[c].retry]_vars

\* a page's call that led a refresh has been replayed, got 401 again and
\* was rejected
C30_RetryRejected ==
    \E c \in AppCalls :
        /\ calls[c].retry /\ calls[c].replayed
        /\ calls[c].pc = "rejected" /\ calls[c].status = 401
        /\ got.id = c /\ got.status = 401 /\ got.sent = <<>>

\* the refresh tokens that /api/auth/refresh would rotate at second t
Redeemable(ledger, exists, t) ==
    {tok \in Range(ledger) : refreshAdmits(tok, exists, t)}

\* C31: the step in which a password reset succeeds sets the password hash
\* and clears the reset token, and leaves the ledger as it is: the refresh
\* tokens redeemable before it are redeemable after it.
C31_ResetKeepsLedger ==
    [][(resetReq.pc = "found" /\ resetReq'.pc = "idle")
       => /\ last'.op = "reset" /\ last'.status = 200
          /\ passwordHash' = resetReq.password
          /\ resetPassword' = NoReset
          /\ refreshTokens' = refreshTokens
          /\ userExists' = userExists
          /\ Redeemable(refreshTokens', userExists', now')
                = Redeemable(refreshTokens, userExists, now)]_vars

\* after a reset, a token issued before it has been rotated
C31_RedeemedAfterReset ==
    /\ passwordHash # 0
    /\ last.op = "refresh" /\ last.status = 200
    /\ last.cookie = generateRefreshToken(UserId, 0)

\* C32: a due reminder is mailed at most once per setting of reminderAt,
\* whatever the interleaving of the find, sendMail and mark steps of the
\* checkers that run at the same time.
C32_MailedAtMostOnce == \A s \in 0..MaxSettings : mailed[s] <= 1

\* C33: a failed send leaves the note unmarked; a note marked reminderSent
\* becomes selectable again only by a note update that sets reminderAt, and
\* such an update leaves reminderSent false.
C33_MarkedUntilSetAgain ==
    [][/\ \A c \in Checkers :
             (checkers[c].pc = "send" /\ checkers'[c].pc = "idle")
             => note' = note
       /\ (note.reminderSent /\ ~note'.reminderSent)
             => (putReq.pc = "found" /\ putReq.sets)
       /\ (putReq.pc = "found" /\ putReq.sets /\ putReq'.pc = "idle")
             => ~note'.reminderSent]_vars

\* C34: a completed note is read-only: a PUT on a note whose completed flag
\* is true is accepted only when it sets completed to false, and a save
\* changes a note that was loaded completed only by a request that
\* un-completes it.
C34_CompletedReadOnly ==
    [][/\ (putReq.pc = "idle" /\ note.completed /\ putReq'.pc = "found")
             => ~putReq'.doc.completed
       /\ (putReq.pc = "found" /\ putReq.found.completed /\ note' # note)
             => ~note'.completed]_vars

\* C35: an accepted PUT leaves originalContent as it was, and the
\* lastEditorEmail it stores is never the one the request body carries.
C35_OriginalContentKept ==
    [][(putReq.pc = "found" /\ putReq'.pc = "idle")
         => /\ note'.originalContent = note.originalContent
            /\ note'.lastEditorEmail # ForgedEmail]_vars

\* C36: dbConnect reuses one connection: mongoose.connect is called at most
\* once however many calls run at the same time or one after another, and
\* every call that returns returns the connection of that one attempt, the
\* one the cache holds.
C36_OneConnection ==
    /\ connects <= 1
    /\ \A c \in DbCallers :
          dbCalls[c].pc = "returned"
          => (dbCalls[c].result = 1 /\ dbCalls[c].result = cached.conn)

\* two calls awaited the same pending promise and a later call found the
\* connection established; all of them returned
C36_AllReturned ==
    /\ connects = 1
    /\ cached.conn = 1
    /\ \A c \in DbCallers : dbCalls[c].pc = "returned"

====
